---- MODULE Spec2Model ----
(***************************************************************************)
(* A model of MyDocxTools.py: a paragraph is the ordered list of its runs  *)
(* (CT_P.r_lst); a run is an element with a text and an optional rPr child *)
(* (its formatting).  The operations are split_run_at_string_index,        *)
(* isolate_para_runs_by_span, find and find_and_replace.                   *)
(*                                                                         *)
(* Run indices and text offsets are 0-based as in the source; TLA+         *)
(* sequences are 1-based, so PyAt and PySlice do the index arithmetic.     *)
(* An element has an identity (field id): lxml moves an element that is    *)
(* inserted somewhere else, it never copies it implicitly.                 *)
(***************************************************************************)
EXTENDS Integers, Sequences, FiniteSets, TLC

VARIABLES paragraph, last, prev

vars == <<paragraph, last, prev>>

\* Bounds of the model.
MaxLen == 3
MaxRuns == 3

\* The characters of paragraph texts.
Chars == {"a", "b"}

\* The formatting of a run: "none" is a run without rPr child (run.rPr is None).
Handles == {"none", "bold"}

-----------------------------------------------------------------------------
\* Python lists and strings.

Min(a, b) == IF a < b THEN a ELSE b

\* F(v), with v evaluated once, before F is applied: every statement of the
\* source runs once, and what it computed is then read from a variable.
Bind(v, F(_)) == CHOOSE r \in {F(x) : x \in {v}} : TRUE

\* s[i] is defined for -len(s) <= i < len(s), and raises IndexError otherwise.
PyInRange(s, i) == i >= 0 - Len(s) /\ i < Len(s)

PyAt(s, i) == IF i < 0 THEN s[Len(s) + i + 1] ELSE s[i + 1]

\* s[lo:hi] for 0 <= lo; a slice never raises, it is clipped to the list.
PySlice(s, lo, hi) == SubSeq(s, lo + 1, Min(hi, Len(s)))

Strs(n) == UNION {[1..k -> Chars] : k \in 0..n}

-----------------------------------------------------------------------------
\* Runs and paragraphs.

\* The value a call gets from run.rPr: None, or the rPr element of that run.
NoneRef == [owner |-> 0, val |-> "none"]

rPr_of(run) ==
    IF run.rPr = "none" THEN NoneRef ELSE [owner |-> run.id, val |-> run.rPr]

\* The position (1-based) in r_lst of the run element with this identity.
PosOfId(r_lst, id) == CHOOSE i \in 1..Len(r_lst) : r_lst[i].id = id

RECURSIVE para_text(_)
\* CT_P.text: the concatenation of the run texts.
para_text(r_lst) ==
    IF r_lst = <<>> THEN <<>> ELSE Head(r_lst).text \o para_text(Tail(r_lst))

\* set_run_text done wrong: the run keeps the text it had.
set_run_text_keeps(run_element, text) == run_element

set_run_text(run_element, text) == [run_element EXCEPT !.text = text]

\* add_run_after_run with a str as added_run: the new run is a deep copy of
\* after_this_run with the text replaced.  With an rPr element given, the copy's
\* rPr is replaced by that element, which lxml moves out of the run that held
\* it.  A deep copy of the result becomes the next sibling of after_this_run.
\* add_run_after_run done wrong: a run made from a str starts without
\* formatting instead of as a copy of after_this_run.
add_run_after_run_plain(p, added_run, after_id, added_run_rPr) ==
    LET i == PosOfId(p.r_lst, after_id)
        new == [id |-> p.nid, text |-> added_run,
                rPr |-> IF added_run_rPr = NoneRef THEN "none" ELSE added_run_rPr.val]
        moved == [j \in 1..Len(p.r_lst) |->
                    IF added_run_rPr # NoneRef /\ p.r_lst[j].id = added_run_rPr.owner
                    THEN [p.r_lst[j] EXCEPT !.rPr = "none"]
                    ELSE p.r_lst[j]]
    IN  [r_lst |-> SubSeq(moved, 1, i) \o <<new>> \o SubSeq(moved, i + 1, Len(moved)),
         nid |-> p.nid + 1]

add_run_after_run(p, added_run, after_id, added_run_rPr) ==
    LET i == PosOfId(p.r_lst, after_id)
        after_this_run == p.r_lst[i]
        copy == set_run_text([after_this_run EXCEPT !.id = p.nid], added_run)
        new == IF added_run_rPr = NoneRef
               THEN copy
               ELSE [copy EXCEPT !.rPr = added_run_rPr.val]
        moved == [j \in 1..Len(p.r_lst) |->
                    IF added_run_rPr # NoneRef /\ p.r_lst[j].id = added_run_rPr.owner
                    THEN [p.r_lst[j] EXCEPT !.rPr = "none"]
                    ELSE p.r_lst[j]]
    IN  [r_lst |-> SubSeq(moved, 1, i) \o <<new>> \o SubSeq(moved, i + 1, Len(moved)),
         nid |-> p.nid + 1]

\* remove_run done wrong: the run stays where it is.
remove_run_keeps(p, id) == p

remove_run(p, id) ==
    LET i == PosOfId(p.r_lst, id)
    IN  [p EXCEPT !.r_lst = SubSeq(p.r_lst, 1, i - 1) \o SubSeq(p.r_lst, i + 1, Len(p.r_lst))]

\* split_run_at_string_index done wrong: the second part is added after the
\* last run of the paragraph instead of after the run that is split.
split_run_at_string_index_appends(p, run_id, index) ==
    LET i == PosOfId(p.r_lst, run_id)
        text == p.r_lst[i].text
    IN  IF index <= 0 \/ index >= Len(text)
        THEN [p |-> p, exc |-> "IndexError"]
        ELSE LET p1 == [p EXCEPT !.r_lst[i] = set_run_text(@, SubSeq(text, 1, index))]
             IN  [p |-> add_run_after_run(p1, SubSeq(text, index + 1, Len(text)),
                                          p.r_lst[Len(p.r_lst)].id, NoneRef),
                  exc |-> "none"]

\* split_run_at_string_index done wrong: the test of the index lets the two
\* ends of the text through.
split_run_at_string_index_lax(p, run_id, index) ==
    LET i == PosOfId(p.r_lst, run_id)
        text == p.r_lst[i].text
    IN  IF index < 0 \/ index > Len(text)
        THEN [p |-> p, exc |-> "IndexError"]
        ELSE LET p1 == [p EXCEPT !.r_lst[i] = set_run_text(@, SubSeq(text, 1, index))]
             IN  [p |-> add_run_after_run(p1, SubSeq(text, index + 1, Len(text)),
                                          run_id, NoneRef),
                  exc |-> "none"]

split_run_at_string_index(p, run_id, index) ==
    LET i == PosOfId(p.r_lst, run_id)
        text == p.r_lst[i].text
    IN  IF index <= 0 \/ index >= Len(text)
        THEN [p |-> p, exc |-> "IndexError"]
        ELSE LET p1 == [p EXCEPT !.r_lst[i] = set_run_text(@, SubSeq(text, 1, index))]
             IN  [p |-> add_run_after_run(p1, SubSeq(text, index + 1, Len(text)),
                                          run_id, NoneRef),
                  exc |-> "none"]

-----------------------------------------------------------------------------
\* isolate_para_runs_by_span.

RECURSIVE SumLen(_, _)
SumLen(r_lst, k) == IF k = 0 THEN 0 ELSE SumLen(r_lst, k - 1) + Len(r_lst[k].text)

\* [0] + list(accumulate(len(run.text) for run in r_lst))
para_runs_start_index(r_lst) == [i \in 1..(Len(r_lst) + 1) |-> SumLen(r_lst, i - 1)]

\* bisect_left on a sorted list: the number of its elements smaller than x.
bisect_left(a, x) == Cardinality({i \in 1..Len(a) : a[i] < x})

\* One of the two "if trim != index[trim_run]: split_run_at_string_index(...)"
\* statements, with the index list computed before the first of them.
split_at_boundary(p, P, trim, trim_run) ==
    IF ~PyInRange(P, trim_run)
    THEN [p |-> p, exc |-> "IndexError", split |-> FALSE]
    ELSE IF trim = PyAt(P, trim_run)
    THEN [p |-> p, exc |-> "none", split |-> FALSE]
    ELSE IF ~PyInRange(p.r_lst, trim_run - 1)
    THEN [p |-> p, exc |-> "IndexError", split |-> FALSE]
    ELSE Bind(split_run_at_string_index(p, PyAt(p.r_lst, trim_run - 1).id,
                                        trim - PyAt(P, trim_run - 1)),
              LAMBDA r : [p |-> r.p, exc |-> r.exc, split |-> r.exc = "none"])

\* isolate_para_runs_by_span done wrong: the run the span starts in is not
\* split.
isolate_para_runs_by_span_end_only(p, span) ==
    Bind(para_runs_start_index(p.r_lst), LAMBDA P :
    LET trim_end == span[2]
        trim_start_run == bisect_left(P, span[1])
        trim_end_run == bisect_left(P, trim_end)
    IN  Bind(split_at_boundary(p, P, trim_end, trim_end_run), LAMBDA e :
        IF e.exc # "none"
        THEN [p |-> e.p, exc |-> e.exc, ret |-> <<>>]
        ELSE [p |-> e.p, exc |-> "none", ret |-> <<trim_start_run, trim_end_run>>]))

isolate_para_runs_by_span(p, span) ==
    Bind(para_runs_start_index(p.r_lst), LAMBDA P :
    LET trim_start == span[1]
        trim_end == span[2]
        trim_start_run == bisect_left(P, trim_start)
        trim_end_run == bisect_left(P, trim_end)
    IN  Bind(split_at_boundary(p, P, trim_end, trim_end_run), LAMBDA e :
        IF e.exc # "none"
        THEN [p |-> e.p, exc |-> e.exc, ret |-> <<>>]
        ELSE Bind(split_at_boundary(e.p, P, trim_start, trim_start_run), LAMBDA s :
             IF s.exc # "none"
             THEN [p |-> s.p, exc |-> s.exc, ret |-> <<>>]
             ELSE [p |-> s.p, exc |-> "none",
                   ret |-> <<trim_start_run,
                             IF s.split THEN trim_end_run + 1 ELSE trim_end_run>>])))

-----------------------------------------------------------------------------
\* Regular expressions (re.finditer, Match.regs).  A compiled pattern is a
\* sequence of tokens: a character, an optional character (a?), the opening
\* of a capture group, named or not, and its closing, plain or optional ( )? ),
\* and the two ends of a lookahead (?= ).

Chr(c) == [k |-> "chr", c |-> c, name |-> <<>>]

ChrOpt(c) == [k |-> "chr?", c |-> c, name |-> <<>>]

Open == [k |-> "open", c |-> "", name |-> <<>>]

OpenNamed(name) == [k |-> "open", c |-> "", name |-> name]

Close == [k |-> "close", c |-> "", name |-> <<>>]

CloseOpt == [k |-> "close?", c |-> "", name |-> <<>>]

Look == [k |-> "look", c |-> "", name |-> <<>>]

EndLook == [k |-> "endlook", c |-> "", name |-> <<>>]

IsClose(t) == t.k \in {"close", "close?"}

\* Groups are numbered by their opening parenthesis, from 1.
GroupNo(pat, i) == Cardinality({j \in 1..i : pat[j].k = "open"})

NGroups(pat) == GroupNo(pat, Len(pat))

RECURSIVE CloseScan(_, _, _)
CloseScan(pat, j, depth) ==
    IF pat[j].k = "open" THEN CloseScan(pat, j + 1, depth + 1)
    ELSE IF IsClose(pat[j])
    THEN IF depth = 0 THEN j ELSE CloseScan(pat, j + 1, depth - 1)
    ELSE CloseScan(pat, j + 1, depth)

\* The token that closes the group opened by token i, and the converse.
CloseOf(pat, i) == CloseScan(pat, i + 1, 0)

OpenOf(pat, j) == CHOOSE i \in 1..j : pat[i].k = "open" /\ CloseOf(pat, i) = j

\* Pattern.groupindex: the number of each named group.
groupindex(pat) ==
    LET named == {i \in 1..Len(pat) : pat[i].k = "open" /\ pat[i].name # <<>>}
    IN  [nm \in {pat[i].name : i \in named} |->
            GroupNo(pat, CHOOSE i \in named : pat[i].name = nm)]

MatchFail == [ok |-> FALSE, regs |-> <<>>]

RECURSIVE sre_match(_, _, _, _, _)
\* A backtracking match of the tokens from i on at offset pos: st holds the
\* offsets at which the open groups started, regs the spans of the closed ones,
\* (-1, -1) for a group that took no part.  The greedy choice is tried first.
\* st[0] is the offset a lookahead began at, where the match goes on after it.
sre_match(ctx, i, pos, st, regs) ==
    IF i > Len(ctx.pat)
    THEN IF ctx.nonempty /\ pos = ctx.from
         THEN MatchFail
         ELSE [ok |-> TRUE, regs |-> [regs EXCEPT ![1] = <<ctx.from, pos>>]]
    ELSE LET t == ctx.pat[i]
             eats == pos < Len(ctx.text) /\ ctx.text[pos + 1] = t.c
         IN  CASE t.k = "chr" ->
                    IF eats THEN sre_match(ctx, i + 1, pos + 1, st, regs) ELSE MatchFail
               [] t.k = "chr?" ->
                    Bind(IF eats THEN sre_match(ctx, i + 1, pos + 1, st, regs)
                         ELSE MatchFail,
                         LAMBDA r : IF r.ok THEN r
                                    ELSE sre_match(ctx, i + 1, pos, st, regs))
               [] t.k = "open" ->
                    LET g == GroupNo(ctx.pat, i)
                        j == CloseOf(ctx.pat, i)
                    IN  Bind(sre_match(ctx, i + 1, pos, [st EXCEPT ![g] = pos], regs),
                             LAMBDA r : IF r.ok \/ ctx.pat[j].k # "close?"
                                        THEN r
                                        ELSE sre_match(ctx, j + 1, pos, st, regs))
               [] t.k = "look" ->
                    sre_match(ctx, i + 1, pos, [st EXCEPT ![0] = pos], regs)
               [] t.k = "endlook" ->
                    sre_match(ctx, i + 1, st[0], st, regs)
               [] IsClose(t) ->
                    LET g == GroupNo(ctx.pat, OpenOf(ctx.pat, i))
                    IN  sre_match(ctx, i + 1, pos, st,
                                  [regs EXCEPT ![g + 1] = <<st[g], pos>>])

RECURSIVE finditer_from(_, _, _, _)
\* The matches from offset pos on, left to right and not overlapping; after
\* an empty match the next one at the same offset must not be empty.
finditer_from(pat, text, pos, nonempty) ==
    IF pos > Len(text) THEN <<>>
    ELSE Bind(sre_match([pat |-> pat, text |-> text, from |-> pos, nonempty |-> nonempty],
                        1, pos, [g \in 0..NGroups(pat) |-> 0],
                        [g \in 1..(NGroups(pat) + 1) |-> <<0 - 1, 0 - 1>>]),
              LAMBDA r :
                IF ~r.ok THEN finditer_from(pat, text, pos + 1, FALSE)
                ELSE <<r.regs>> \o
                     (IF r.regs[1][2] = pos
                      THEN finditer_from(pat, text, pos, TRUE)
                      ELSE finditer_from(pat, text, r.regs[1][2], FALSE)))

\* list(re.finditer(find, para_text)): every match as its regs, the spans of
\* the whole match (regs[0] in Python) and of the groups.
finditer(pat, text) == finditer_from(pat, text, 0, FALSE)

-----------------------------------------------------------------------------
\* find.

RECURSIVE isolate_groups(_, _, _)
\* for ig, group in enumerate(groups[i][1:], start=1):
\*     groups[i][ig] = isolate_para_runs_by_span(paragraph, group)
isolate_groups(p, groups_i, ig) ==
    IF ig > Len(groups_i) THEN [p |-> p, exc |-> "none", groups_i |-> groups_i]
    ELSE Bind(isolate_para_runs_by_span(p, groups_i[ig]), LAMBDA r :
              IF r.exc # "none"
              THEN [p |-> r.p, exc |-> r.exc, groups_i |-> groups_i]
              ELSE isolate_groups(r.p, [groups_i EXCEPT ![ig] = r.ret], ig + 1))

RECURSIVE find_loop(_, _, _, _)
\* for i, span in enumerate(spans): ...
find_loop(p, i, spans, groups) ==
    IF i > Len(spans) THEN [p |-> p, exc |-> "none", spans |-> spans, groups |-> groups]
    ELSE Bind(isolate_para_runs_by_span(p, spans[i]), LAMBDA s :
         IF s.exc # "none"
         THEN [p |-> s.p, exc |-> s.exc, spans |-> spans, groups |-> groups]
         ELSE Bind(isolate_groups(s.p, groups[i], 2), LAMBDA g :
              LET shift == Len(g.p.r_lst) - Len(s.p.r_lst)
                  span == <<s.ret[1], s.ret[2] + shift>>
              IN  IF g.exc # "none"
                  THEN [p |-> g.p, exc |-> g.exc, spans |-> spans, groups |-> groups]
                  ELSE Bind(<<[spans EXCEPT ![i] = span],
                              [groups EXCEPT ![i] = [g.groups_i EXCEPT ![1] = span]]>>,
                            LAMBDA sg : find_loop(g.p, i + 1, sg[1], sg[2]))))

\* find done wrong: without a match, the first character of the paragraph is
\* isolated all the same.
find_isolates(p, pat) ==
    Bind(finditer(pat, para_text(p.r_lst)), LAMBDA matches :
    IF matches = <<>>
    THEN [p |-> isolate_para_runs_by_span(p, <<0, Min(1, Len(para_text(p.r_lst)))>>).p,
          exc |-> "none", spans |-> <<>>, groups |-> <<>>, matches |-> <<>>]
    ELSE Bind(find_loop(p, 1, [i \in 1..Len(matches) |-> matches[i][1]], matches),
              LAMBDA r : [p |-> r.p, exc |-> r.exc, spans |-> r.spans,
                          groups |-> r.groups, matches |-> matches]))

find(p, pat) ==
    Bind(finditer(pat, para_text(p.r_lst)), LAMBDA matches :
    IF matches = <<>>
    THEN [p |-> p, exc |-> "none", spans |-> <<>>, groups |-> <<>>, matches |-> <<>>]
    ELSE Bind(find_loop(p, 1, [i \in 1..Len(matches) |-> matches[i][1]], matches),
              LAMBDA r : [p |-> r.p, exc |-> r.exc, spans |-> r.spans,
                          groups |-> r.groups, matches |-> matches]))

\* The patterns of the model.
Pat_empty == <<>>

Pat_a == <<Chr("a")>>

Pat_b == <<Chr("b")>>

Pat_ab == <<Chr("a"), Chr("b")>>

\* (a)
Pat_Ga == <<Open, Chr("a"), Close>>

\* (a)(b)
Pat_GaGb == <<Open, Chr("a"), Close, Open, Chr("b"), Close>>

\* a(b)
Pat_aGb == <<Chr("a"), Open, Chr("b"), Close>>

\* (a)b
Pat_Gab == <<Open, Chr("a"), Close, Chr("b")>>

\* (?P<x>a)
Pat_Nx == <<OpenNamed(<<"x">>), Chr("a"), Close>>

\* (a)?b
Pat_OptGab == <<Open, Chr("a"), CloseOpt, Chr("b")>>

\* a?
Pat_OptA == <<ChrOpt("a")>>

\* ((a)b): group 1 encloses group 2
Pat_GGab == <<Open, Open, Chr("a"), Close, Chr("b"), Close>>

\* (a(b))
Pat_GaGb_nested == <<Open, Chr("a"), Open, Chr("b"), Close, Close>>

\* (?=(ab))a: group 1 ends after the match
Pat_LookGab_a == <<Look, Open, Chr("a"), Chr("b"), Close, EndLook, Chr("a")>>

\* (?=ab(a))(a)ba: group 1 lies after group 2
Pat_Look_GaGa == <<Look, Chr("a"), Chr("b"), Open, Chr("a"), Close, EndLook,
                   Open, Chr("a"), Close, Chr("b"), Chr("a")>>

\* The templates of the model.
Tpl_empty == <<>>

Tpl_a == <<"a">>

Tpl_b == <<"b">>

Tpl_c == <<"c">>

Tpl_ab == <<"a", "b">>

\* \1
Tpl_1 == <<"\\", "1">>

\* c\1
Tpl_c1 == <<"c", "\\", "1">>

\* \1c
Tpl_1c == <<"\\", "1", "c">>

\* \2
Tpl_2 == <<"\\", "2">>

\* \2\1
Tpl_21 == <<"\\", "2", "\\", "1">>

\* \g<x>
Tpl_gx == <<"\\", "g", "<", "x", ">">>

\* \g<y>
Tpl_gy == <<"\\", "g", "<", "y", ">">>

\* c\g<y>
Tpl_cgy == <<"c", "\\", "g", "<", "y", ">">>

\* The calls of find_and_replace with one pattern and one template.
SingleCalls ==
    {<<Pat_a, Tpl_b>>, <<Pat_a, Tpl_a>>, <<Pat_a, Tpl_empty>>, <<Pat_ab, Tpl_ab>>,
     <<Pat_ab, Tpl_c>>, <<Pat_b, Tpl_c>>,
     <<Pat_Ga, Tpl_1>>, <<Pat_Ga, Tpl_c1>>, <<Pat_Ga, Tpl_c>>,
     <<Pat_GaGb, Tpl_21>>, <<Pat_GaGb, Tpl_2>>,
     <<Pat_aGb, Tpl_1>>, <<Pat_aGb, Tpl_c>>, <<Pat_Gab, Tpl_1c>>, <<Pat_Gab, Tpl_c>>,
     <<Pat_Nx, Tpl_gx>>, <<Pat_Nx, Tpl_1>>,
     <<Pat_OptGab, Tpl_1>>, <<Pat_OptA, Tpl_c>>,
     <<Pat_a, Tpl_gy>>, <<Pat_Ga, Tpl_cgy>>, <<Pat_empty, Tpl_empty>>}

\* The pairs of the calls with two patterns and two templates.
ChainPairs == {<<Pat_a, Tpl_b>>, <<Pat_b, Tpl_c>>, <<Pat_b, Tpl_a>>}

Patterns == {Pat_a, Pat_b, Pat_ab, Pat_Ga, Pat_GaGb, Pat_aGb, Pat_Gab, Pat_Nx,
             Pat_OptGab, Pat_OptA, Pat_empty, Pat_GGab, Pat_GaGb_nested,
             Pat_LookGab_a, Pat_Look_GaGa}

-----------------------------------------------------------------------------
\* Replacement templates: strings, as sequences of characters.

Digits == {"0", "1", "2", "3", "4", "5", "6", "7", "8", "9"}

\* The characters of \w that the model's templates and group names use.
WordChars == Chars \cup Digits \cup {"c", "g", "x", "y", "_"}

RECURSIVE RunOf(_, _, _)
\* The end of the longest stretch of characters of set S that starts at offset i.
RunOf(s, i, S) == IF i < Len(s) /\ s[i + 1] \in S THEN RunOf(s, i + 1, S) ELSE i

\* The end of a match of \\(?:\d+|g<\w+>) at offset i of repl, or 0 for none.
ref_end(repl, i) ==
    IF ~(i < Len(repl) /\ repl[i + 1] = "\\") THEN 0
    ELSE LET d == RunOf(repl, i + 1, Digits)
             w == RunOf(repl, i + 3, WordChars)
         IN  IF d > i + 1 THEN d
             ELSE IF /\ i + 2 < Len(repl)
                     /\ repl[i + 2] = "g" /\ repl[i + 3] = "<"
                     /\ w > i + 3
                     /\ w < Len(repl) /\ repl[w + 1] = ">"
             THEN w + 1
             ELSE 0

RECURSIVE scan_refs(_, _)
scan_refs(repl, i) ==
    IF i >= Len(repl) THEN <<>>
    ELSE LET e == ref_end(repl, i)
         IN  IF e = 0 THEN scan_refs(repl, i + 1)
             ELSE <<[span |-> <<i, e>>, nameORnumber |-> PySlice(repl, i + 1, e)]>>
                  \o scan_refs(repl, e)

\* The back-references of a template: the span of each, and the text after
\* its backslash: the digits of \N, and all of g<name> for \g<name>.
find_reference_in_repl(repl) == scan_refs(repl, 0)

\* str.isnumeric and int.
isnumeric(s) == s # <<>> /\ \A i \in 1..Len(s) : s[i] \in Digits

DigitVal(c) == CHOOSE n \in 0..9 : <<"0", "1", "2", "3", "4", "5", "6", "7", "8", "9">>[n + 1] = c

RECURSIVE int(_)
int(s) == IF s = <<>> THEN 0 ELSE 10 * int(SubSeq(s, 1, Len(s) - 1)) + DigitVal(s[Len(s)])

\* The text of group g of a match (Match.group), empty for a group that took
\* no part.
group_text(text, regs, g) ==
    IF regs[g + 1][1] < 0 THEN <<>> ELSE PySlice(text, regs[g + 1][1], regs[g + 1][2])

RECURSIVE expand_from(_, _, _, _, _)
\* Match.expand(template): \N and \g<name> give the text of the group, the
\* other characters stand for themselves.  A number that is no group of the
\* pattern is an re.error, an unknown name an IndexError.
expand_from(pat, text, regs, template, i) ==
    IF i >= Len(template) THEN [exc |-> "none", out |-> <<>>]
    ELSE LET e == ref_end(template, i)
             ref == PySlice(template, i + 1, e)
             key == IF isnumeric(ref) THEN ref ELSE PySlice(ref, 2, Len(ref) - 1)
             g == IF isnumeric(key) THEN int(key)
                  ELSE IF key \in DOMAIN groupindex(pat) THEN groupindex(pat)[key]
                  ELSE 0 - 1
             one == IF e = 0 THEN <<template[i + 1]>> ELSE group_text(text, regs, g)
         IN  IF e # 0 /\ g < 0 THEN [exc |-> "IndexError", out |-> <<>>]
             ELSE IF e # 0 /\ g > NGroups(pat) THEN [exc |-> "re.error", out |-> <<>>]
             ELSE Bind(expand_from(pat, text, regs, template, IF e = 0 THEN i + 1 ELSE e),
                       LAMBDA rest : IF rest.exc # "none" THEN rest
                                     ELSE [exc |-> "none", out |-> one \o rest.out])

expand(pat, text, regs, template) == expand_from(pat, text, regs, template, 0)

-----------------------------------------------------------------------------
\* find_and_replace.

\* The section name None.
None == <<>>

RECURSIVE sections_loop(_, _, _, _)
\* for repl_captured_group in repl_captured_groups: ...
sections_loop(refs, k, names, starts) ==
    IF k > Len(refs) THEN [names |-> names, starts |-> starts]
    ELSE LET repl_group_start == refs[k].span[1]
             repl_group_end == refs[k].span[2]
             repl_group_name == refs[k].nameORnumber
             n == Len(names)
         IN  IF repl_group_start = starts[Len(starts)]
             THEN sections_loop(refs, k + 1,
                                Append([names EXCEPT ![n] = repl_group_name], None),
                                Append(starts, repl_group_end))
             ELSE sections_loop(refs, k + 1,
                                Append(Append(names, repl_group_name), None),
                                Append(Append(starts, repl_group_start), repl_group_end))

\* repl_sections_names, repl_sections_starts and repl_sections_ends of a template.
repl_sections(replace_text) ==
    LET r == sections_loop(find_reference_in_repl(replace_text), 1, <<None>>, <<0>>)
    IN  [names |-> r.names, starts |-> r.starts,
         ends |-> Tail(r.starts) \o <<Len(replace_text)>>]

RECURSIVE first_normal_run(_, _, _, _)
\* fr = run_span_start; for group in groups: ...   The rPr of r_lst[fr] at the
\* first group that does not start at fr, None when there is no such group.
first_normal_run(r_lst, groups, k, fr) ==
    IF k > Len(groups) THEN [exc |-> "none", rPr |-> NoneRef]
    ELSE IF groups[k][1] = fr THEN first_normal_run(r_lst, groups, k + 1, groups[k][2])
    ELSE IF ~PyInRange(r_lst, fr) THEN [exc |-> "IndexError", rPr |-> NoneRef]
    ELSE [exc |-> "none", rPr |-> rPr_of(PyAt(r_lst, fr))]

\* groups_rPr[int(section_name)], or groups_rPr[groupindex[section_name]] for
\* a section name that is no number: the index, and -1 for a KeyError.
section_group(pat, section_name) ==
    IF isnumeric(section_name) THEN int(section_name)
    ELSE IF section_name \in DOMAIN groupindex(pat) THEN groupindex(pat)[section_name]
    ELSE 0 - 1

RECURSIVE sections_runs(_, _, _, _)
\* for i, section_name in enumerate(repl_sections_names): ...
\* c holds what the loop reads: the pattern, the paragraph text the matches
\* were found in, the template and its sections, the match, prev_run and the
\* rPr elements of the groups.  added lists the runs added so far.
sections_runs(p, c, i, added) ==
    IF i > Len(c.sec.names) THEN [p |-> p, exc |-> "none", added |-> added]
    ELSE LET section_name == c.sec.names[i]
             g == section_group(c.pat, section_name)
         IN  Bind(expand(c.pat, c.text, c.regs,
                         PySlice(c.replace_text, c.sec.starts[i], c.sec.ends[i])),
                  LAMBDA repl_section_string :
             IF repl_section_string.exc # "none"
             THEN [p |-> p, exc |-> repl_section_string.exc, added |-> added]
             ELSE IF section_name # None /\ g < 0
             THEN [p |-> p, exc |-> "KeyError", added |-> added]
             ELSE IF section_name # None /\ ~PyInRange(c.groups_rPr, g)
             THEN [p |-> p, exc |-> "IndexError", added |-> added]
             ELSE Bind(add_run_after_run(p, repl_section_string.out, c.prev_run,
                                         IF section_name = None THEN c.groups_rPr[1]
                                         ELSE PyAt(c.groups_rPr, g)),
                       LAMBDA q :
                  sections_runs(q, c, i + 1,
                                Append(added, [id |-> p.nid, name |-> section_name,
                                               text |-> repl_section_string.out,
                                               rPr |-> q.r_lst[PosOfId(q.r_lst, p.nid)].rPr]))))

RECURSIVE remove_runs(_, _)
\* for run in run_to_remove: remove_run(run)
remove_runs(p, ids) ==
    IF ids = <<>> THEN p
    ELSE Bind(remove_run(p, Head(ids)), LAMBDA q : remove_runs(q, Tail(ids)))

\* The body of "for i_spans in range(len(spans))[::-1]" for one match.
replace_match(p, pat, text, replace_text, sec, span, groups, regs) ==
    LET run_span_start == span[1]
        run_span_end == span[2]
        bad == {k \in 2..Len(groups) : ~PyInRange(p.r_lst, groups[k][1])}
        run_to_remove == PySlice(p.r_lst, run_span_start, run_span_end)
    IN  Bind(first_normal_run(p.r_lst, groups, 1, run_span_start),
             LAMBDA first_normal_run_rPr :
        IF \/ first_normal_run_rPr.exc # "none"
           \/ bad # {}
           \/ ~PyInRange(p.r_lst, run_span_start)
        THEN [p |-> p, exc |-> "IndexError", added |-> <<>>]
        ELSE Bind([pat |-> pat, text |-> text, regs |-> regs,
                   replace_text |-> replace_text, sec |-> sec,
                   prev_run |-> PyAt(p.r_lst, run_span_start).id,
                   groups_rPr |-> <<first_normal_run_rPr.rPr>> \o
                        [k \in 1..(Len(groups) - 1) |->
                            rPr_of(PyAt(p.r_lst, groups[k + 1][1]))]],
                  LAMBDA c :
             Bind(sections_runs(p, c, 1, <<>>), LAMBDA r :
                  IF r.exc # "none" THEN r
                  ELSE [p |-> remove_runs(r.p, [k \in 1..Len(run_to_remove) |->
                                                   run_to_remove[k].id]),
                        exc |-> "none", added |-> r.added])))

RECURSIVE replace_loop_ascending(_, _, _, _, _, _, _)
\* The loop over the matches done wrong: from the first match to the last.
replace_loop_ascending(p, pat, text, sec, f, i_spans, steps) ==
    IF i_spans = 0 THEN [p |-> p, exc |-> "none", steps |-> steps]
    ELSE LET m == Len(f.spans) - i_spans + 1
         IN  Bind(replace_match(p, pat, text, sec.replace_text, sec, f.spans[m],
                                f.groups[m], f.matches[m]),
                  LAMBDA r :
             Bind(Append(steps, [m |-> m, at |-> p.r_lst, exc |-> r.exc,
                                 added |-> r.added]),
                  LAMBDA steps1 :
                  IF r.exc # "none"
                  THEN [p |-> r.p, exc |-> r.exc, steps |-> steps1]
                  ELSE replace_loop_ascending(r.p, pat, text, sec, f, i_spans - 1,
                                              steps1)))

RECURSIVE replace_loop(_, _, _, _, _, _, _)
\* for i_spans in range(len(spans))[::-1]: the matches from the last to the
\* first.  steps records, per match, the runs before it and the runs added.
replace_loop(p, pat, text, sec, f, i_spans, steps) ==
    IF i_spans = 0 THEN [p |-> p, exc |-> "none", steps |-> steps]
    ELSE Bind(replace_match(p, pat, text, sec.replace_text, sec, f.spans[i_spans],
                            f.groups[i_spans], f.matches[i_spans]),
              LAMBDA r :
         Bind(Append(steps, [m |-> i_spans, at |-> p.r_lst, exc |-> r.exc,
                             added |-> r.added]),
              LAMBDA steps1 :
              IF r.exc # "none"
              THEN [p |-> r.p, exc |-> r.exc, steps |-> steps1]
              ELSE replace_loop(r.p, pat, text, sec, f, i_spans - 1, steps1)))

\* One turn of "for find_text, replace_text in list(zip(finds, replaces))".
replace_pair(p, pat, replace_text) ==
    Bind(find(p, pat), LAMBDA f :
    LET rec == [find |-> pat, replace |-> replace_text, pre |-> p.r_lst,
                found |-> f.exc = "none", iso |-> f.p.r_lst, spans |-> f.spans,
                groups |-> f.groups, matches |-> f.matches]
    IN  IF f.exc # "none"
        THEN [p |-> f.p, exc |-> f.exc,
              rec |-> rec @@ [post |-> f.p.r_lst, exc |-> f.exc, steps |-> <<>>]]
        ELSE Bind(replace_loop(f.p, pat, para_text(p.r_lst),
                               repl_sections(replace_text) @@
                                   [replace_text |-> replace_text],
                               f, Len(f.spans), <<>>),
                  LAMBDA r :
                  [p |-> r.p, exc |-> r.exc,
                   rec |-> rec @@ [post |-> r.p.r_lst, exc |-> r.exc,
                                   steps |-> r.steps]]))

\* find_and_replace_pairs done wrong: every pair searches the text the
\* paragraph had when the call began, and replaces in that paragraph.
RECURSIVE find_and_replace_pairs_stale(_, _, _, _)
find_and_replace_pairs_stale(p, pairs, k, trace) ==
    IF k > Len(pairs) THEN [p |-> p, exc |-> "none", trace |-> trace]
    ELSE Bind(replace_pair(IF trace = <<>> THEN p
                           ELSE [r_lst |-> trace[1].pre, nid |-> p.nid],
                           pairs[k][1], pairs[k][2]),
              LAMBDA r :
              IF r.exc # "none"
              THEN [p |-> r.p, exc |-> r.exc, trace |-> Append(trace, r.rec)]
              ELSE find_and_replace_pairs_stale(r.p, pairs, k + 1, Append(trace, r.rec)))

RECURSIVE find_and_replace_pairs(_, _, _, _)
\* for find_text, replace_text in list(zip(finds, replaces)): ...
find_and_replace_pairs(p, pairs, k, trace) ==
    IF k > Len(pairs) THEN [p |-> p, exc |-> "none", trace |-> trace]
    ELSE Bind(replace_pair(p, pairs[k][1], pairs[k][2]), LAMBDA r :
              IF r.exc # "none"
              THEN [p |-> r.p, exc |-> r.exc, trace |-> Append(trace, r.rec)]
              ELSE find_and_replace_pairs(r.p, pairs, k + 1, Append(trace, r.rec)))

\* find_and_replace on a paragraph (CT_P); zip pairs the two lists up to the
\* shorter one.
zip(finds, replaces) ==
    [k \in 1..Min(Len(finds), Len(replaces)) |-> <<finds[k], replaces[k]>>]

find_and_replace(p, finds, replaces) ==
    find_and_replace_pairs(p, zip(finds, replaces), 1, <<>>)

-----------------------------------------------------------------------------
\* The state machine: a paragraph as loaded from a document, and the calls.

NoCall == [op |-> "none", pre |-> <<>>, exc |-> "none", args |-> <<>>, ret |-> <<>>]

\* The paragraphs of at most MaxRuns runs and at most MaxLen characters.  A run
\* of a document may hold no text at all.
Paragraphs ==
    UNION {
        {[r_lst |-> [i \in 1..k |-> [id |-> i, text |-> t[i], rPr |-> h[i]]], nid |-> k + 1] :
            <<t, h>> \in {th \in [1..k -> Strs(MaxLen)] \X [1..k -> Handles] :
                            SumLen([i \in 1..k |-> [text |-> th[1][i]]], k) <= MaxLen}}
        : k \in 0..MaxRuns}

Init ==
    /\ paragraph \in Paragraphs
    /\ last = NoCall
    /\ prev = NoCall

\* split_run_at_string_index(paragraph.r_lst[i], index)
SplitRun(i, index) ==
    /\ last.op = "none"
    /\ i \in 0..(Len(paragraph.r_lst) - 1)
    /\ \E r \in {split_run_at_string_index(paragraph, PyAt(paragraph.r_lst, i).id, index)} :
           /\ paragraph' = r.p
           /\ last' = [op |-> "split_run", pre |-> paragraph.r_lst, exc |-> r.exc,
                       args |-> <<i, index>>, ret |-> <<>>]
           /\ prev' = last

\* isolate_para_runs_by_span(paragraph, (s, e))
IsolateSpan(s, e) ==
    /\ last.op = "none"
    /\ 0 <= s /\ s <= e /\ e <= Len(para_text(paragraph.r_lst))
    /\ \E r \in {isolate_para_runs_by_span(paragraph, <<s, e>>)} :
           /\ paragraph' = r.p
           /\ last' = [op |-> "isolate_span", pre |-> paragraph.r_lst, exc |-> r.exc,
                       args |-> <<s, e>>, ret |-> r.ret]
           /\ prev' = last

\* find_and_replace(paragraph, finds, replaces)
FindAndReplace(finds, replaces) ==
    /\ last.op = "none"
    /\ \E r \in {find_and_replace(paragraph, finds, replaces)} :
           /\ paragraph' = r.p
           /\ last' = [op |-> "find_and_replace", pre |-> paragraph.r_lst, exc |-> r.exc,
                       args |-> <<finds, replaces>>, ret |-> r.trace]
           /\ prev' = last

\* The same call once more, directly after the first.
IsolateSpanAgain ==
    /\ last.op = "isolate_span"
    /\ prev.op = "none"
    /\ \E r \in {isolate_para_runs_by_span(paragraph, last.args)} :
           /\ paragraph' = r.p
           /\ last' = [op |-> "isolate_span", pre |-> paragraph.r_lst, exc |-> r.exc,
                       args |-> last.args, ret |-> r.ret]
           /\ prev' = last

\* find(paragraph, pat)
Find(pat) ==
    /\ last.op = "none"
    /\ \E r \in {find(paragraph, pat)} :
           /\ paragraph' = r.p
           /\ last' = [op |-> "find", pre |-> paragraph.r_lst, exc |-> r.exc,
                       args |-> <<pat>>,
                       ret |-> [spans |-> r.spans, groups |-> r.groups,
                                matches |-> r.matches]]
           /\ prev' = last

NextSplit == \E i \in 0..(MaxRuns - 1), index \in (-1)..(MaxLen + 1) : SplitRun(i, index)

NextIsolate ==
    \/ \E s \in 0..MaxLen, e \in 0..MaxLen : IsolateSpan(s, e)
    \/ IsolateSpanAgain

NextFind == \E pat \in Patterns : Find(pat)

NextReplace == \E c \in SingleCalls : FindAndReplace(<<c[1]>>, <<c[2]>>)

NextChain ==
    \E c \in ChainPairs, d \in ChainPairs : FindAndReplace(<<c[1], d[1]>>, <<c[2], d[2]>>)

Next ==
    \/ NextSplit
    \/ NextIsolate
    \/ NextFind
    \/ NextReplace
    \/ NextChain

Spec == Init /\ [][Next]_vars

\* The calls of one operation each.
SpecSplit == Init /\ [][NextSplit]_vars

SpecIsolate == Init /\ [][NextIsolate]_vars

SpecFind == Init /\ [][NextFind]_vars

SpecReplace == Init /\ [][NextReplace]_vars

SpecChain == Init /\ [][NextChain]_vars

-----------------------------------------------------------------------------
\* What the claims are stated with.

\* The concatenation of the texts of runs[lo:hi].
range_text(r_lst, lo, hi) == para_text(PySlice(r_lst, lo, hi))

\* The run offsets of a paragraph: the offsets at which a run starts or ends.
Boundaries(r_lst) == {SumLen(r_lst, k) : k \in 0..Len(r_lst)}

-----------------------------------------------------------------------------
\* C1: for every paragraph and every span (s, e) with 0 <= s <= e <= len(text),
\* empty spans and spans inside one run included, isolate_para_runs_by_span
\* returns (lo, hi) such that the texts of runs[lo:hi] concatenate to
\* text[s:e], and the run texts still concatenate to the paragraph text.
C1_IsolateReturnsTheSpan ==
    (last.op = "isolate_span" /\ prev.op = "none") =>
        /\ last.exc = "none"
        /\ range_text(paragraph.r_lst, last.ret[1], last.ret[2])
             = PySlice(para_text(last.pre), last.args[1], last.args[2])
        /\ para_text(paragraph.r_lst) = para_text(last.pre)

\* C1, where the code does what it claims: the spans that are not an empty
\* span strictly inside a run.
C1_HoldsButInsideEmpty ==
    (/\ last.op = "isolate_span" /\ prev.op = "none"
     /\ ~(last.args[1] = last.args[2] /\ last.args[1] \notin Boundaries(last.pre))) =>
        /\ last.exc = "none"
        /\ range_text(paragraph.r_lst, last.ret[1], last.ret[2])
             = PySlice(para_text(last.pre), last.args[1], last.args[2])
        /\ para_text(paragraph.r_lst) = para_text(last.pre)

\* C1: an empty span strictly inside a run always raises IndexError, after the
\* run was split once.
C1_InsideEmptyRaises ==
    (/\ last.op = "isolate_span" /\ prev.op = "none"
     /\ last.args[1] = last.args[2] /\ last.args[1] \notin Boundaries(last.pre)) =>
        /\ last.exc = "IndexError"
        /\ Len(paragraph.r_lst) = Len(last.pre) + 1

-----------------------------------------------------------------------------
\* C7: a second call of isolate_para_runs_by_span with the same span, directly
\* after the first, splits nothing (the run sequence is unchanged) and returns
\* the same (lo, hi) as the first call, empty runs in the paragraph or not.
C7_SecondCallIsIdle ==
    (last.op = "isolate_span" /\ prev.op = "isolate_span") =>
        /\ prev.exc = "none"
        /\ last.exc = "none"
        /\ paragraph.r_lst = last.pre
        /\ last.ret = prev.ret

\* C7, for the first calls that return: the second call is idle.
C7_IdleAfterReturn ==
    (last.op = "isolate_span" /\ prev.op = "isolate_span" /\ prev.exc = "none") =>
        /\ last.exc = "none"
        /\ paragraph.r_lst = last.pre
        /\ last.ret = prev.ret

-----------------------------------------------------------------------------
\* C10: split_run_at_string_index(run, k) with 0 < k < len(run.text) sets the
\* text of the run to text[:k] and inserts, immediately after it, one new run
\* with the text text[k:] and the same formatting; the paragraph text is
\* unchanged and there is exactly one run more.
C10_SplitRun ==
    (/\ last.op = "split_run"
     /\ 0 < last.args[2]
     /\ last.args[2] < Len(PyAt(last.pre, last.args[1]).text)) =>
        LET i == last.args[1]
            k == last.args[2]
            old == PyAt(last.pre, i)
        IN  /\ last.exc = "none"
            /\ Len(paragraph.r_lst) = Len(last.pre) + 1
            /\ PyAt(paragraph.r_lst, i).id = old.id
            /\ PyAt(paragraph.r_lst, i).text = PySlice(old.text, 0, k)
            /\ PyAt(paragraph.r_lst, i + 1).text = PySlice(old.text, k, Len(old.text))
            /\ PyAt(paragraph.r_lst, i + 1).rPr = old.rPr
            /\ PyAt(paragraph.r_lst, i + 1).id \notin {last.pre[j].id : j \in 1..Len(last.pre)}
            /\ para_text(paragraph.r_lst) = para_text(last.pre)

\* A run with formatting, followed by a run without, was split in two.
C10_Witness ==
    /\ last.op = "split_run"
    /\ last.exc = "none"
    /\ last.args[1] + 1 < Len(last.pre)
    /\ PyAt(last.pre, last.args[1]).rPr = "bold"
    /\ PyAt(last.pre, last.args[1] + 1).rPr = "none"
    /\ Len(paragraph.r_lst) = Len(last.pre) + 1

-----------------------------------------------------------------------------
\* What the claims about find and find_and_replace are stated with.

RECURSIVE sub_from(_, _, _, _, _, _)
\* re.sub: the text with every match replaced by the template expanded
\* against it; matches are the matches from the k-th on, pos the offset the
\* text is copied from.
sub_from(pat, repl, text, matches, k, pos) ==
    IF k > Len(matches) THEN PySlice(text, pos, Len(text))
    ELSE PySlice(text, pos, matches[k][1][1])
         \o expand(pat, text, matches[k], repl).out
         \o sub_from(pat, repl, text, matches, k + 1, matches[k][1][2])

re_sub(pat, repl, text) == sub_from(pat, repl, text, finditer(pat, text), 1, 0)

\* The calls of find_and_replace with one pattern and one template.
OnePair == last.op = "find_and_replace" /\ Len(last.args[1]) = 1

\* Run index j is inside one of the run ranges.
Covered(ranges, j) == \E k \in 1..Len(ranges) : ranges[k][1] <= j /\ j < ranges[k][2]

\* The formatting of the first run of runs[lo:hi] that is in none of the run
\* ranges of the groups, "none" when every run is in one.
FirstNormalHandle(r_lst, groups) ==
    LET lo == groups[1][1]
        hi == groups[1][2]
        free == {j \in lo..(hi - 1) : ~Covered(Tail(groups), j)}
    IN  IF free = {} THEN "none"
        ELSE PyAt(r_lst, CHOOSE j \in free : \A i \in free : j <= i).rPr

-----------------------------------------------------------------------------
\* C2: find_and_replace with one pattern and one template inserts the new runs
\* of each match in the order of the template's sections: the paragraph text
\* afterwards is the text before with every match replaced by the template
\* expanded against that match.
C2_TextIsTemplateExpanded ==
    (OnePair /\ last.exc = "none") =>
        para_text(paragraph.r_lst)
          = re_sub(last.args[1][1], last.args[2][1], para_text(last.pre))

\* C2, for the templates of one section (no back-reference, or nothing but
\* one) and matches that are not empty: the text afterwards is the text with
\* the matches replaced.
C2_HoldsForOneSection ==
    (/\ OnePair /\ last.exc = "none"
     /\ LET sec == repl_sections(last.args[2][1])
        IN  \/ Len(sec.names) = 1
            \/ Len(sec.names) = 2 /\ sec.starts[2] = sec.ends[2]
     /\ \A m \in 1..Len(last.ret[1].matches) :
            last.ret[1].matches[m][1][1] < last.ret[1].matches[m][1][2]) =>
        para_text(paragraph.r_lst)
          = re_sub(last.args[1][1], last.args[2][1], para_text(last.pre))

-----------------------------------------------------------------------------
\* C3: after find_and_replace, every run outside every match's run range has
\* the text and the formatting it had after the isolation, before the
\* replacement.
C3_OutsideRunsUntouched ==
    (last.op = "find_and_replace" /\ last.exc = "none") =>
        \A t \in 1..Len(last.ret) :
            LET rec == last.ret[t]
            IN  \A j \in 0..(Len(rec.iso) - 1) :
                    ~Covered(rec.spans, j) =>
                        \E n \in 1..Len(rec.post) : rec.post[n] = PyAt(rec.iso, j)

-----------------------------------------------------------------------------
\* C4: for every match and every section \N of the template, the new run of
\* the section has the formatting of the first run of the run range of group
\* N, as it was before the replacement.
C4_GroupSectionFormatting ==
    last.op = "find_and_replace" =>
        \A t \in 1..Len(last.ret) :
            LET rec == last.ret[t]
            IN  \A s \in 1..Len(rec.steps) :
                    \A a \in 1..Len(rec.steps[s].added) :
                        LET new == rec.steps[s].added[a]
                            group == rec.groups[rec.steps[s].m][int(new.name) + 1]
                        IN  isnumeric(new.name) =>
                                new.rPr = PyAt(rec.iso, group[1]).rPr

-----------------------------------------------------------------------------
\* C5: for a pattern with capture groups, the new run of a literal section of
\* the template has the formatting of the first run of the match's run range
\* that is in no group's run range, and no formatting when there is no such
\* run; the run that is read is one of the match's run range, so that reading
\* it never fails.
C5_LiteralSectionFormatting ==
    last.op = "find_and_replace" =>
        \A t \in 1..Len(last.ret) :
            LET rec == last.ret[t]
            IN  NGroups(rec.find) > 0 =>
                    \A s \in 1..Len(rec.steps) :
                        /\ rec.steps[s].exc # "IndexError"
                        /\ \A a \in 1..Len(rec.steps[s].added) :
                             LET new == rec.steps[s].added[a]
                             IN  (new.name = None /\ new.text # <<>>) =>
                                    new.rPr = FirstNormalHandle(rec.iso,
                                                    rec.groups[rec.steps[s].m])

-----------------------------------------------------------------------------
\* C6: with a template \g<name> and a pattern that defines the group name,
\* find_and_replace completes, and the new run of the section has the text
\* of the group and the formatting of the first run of its run range.
C6_NamedReference ==
    (/\ OnePair
     /\ last.args[2][1] = Tpl_gx
     /\ <<"x">> \in DOMAIN groupindex(last.args[1][1])
     /\ finditer(last.args[1][1], para_text(last.pre)) # <<>>) =>
        /\ last.exc = "none"
        /\ LET rec == last.ret[1]
               g == groupindex(rec.find)[<<"x">>]
           IN  \A s \in 1..Len(rec.steps) :
                   \E a \in 1..Len(rec.steps[s].added) :
                       LET new == rec.steps[s].added[a]
                           m == rec.steps[s].m
                       IN  /\ new.text = group_text(para_text(last.pre), rec.matches[m], g)
                           /\ new.rPr = PyAt(rec.iso, rec.groups[m][g + 1][1]).rPr

-----------------------------------------------------------------------------
\* C9: find with a pattern of which a group takes no part in a match
\* completes: the group gets no run range, no run is split for it, and the
\* span of the match and the groups that take part are isolated as usual.
C9_UnmatchedGroup ==
    (/\ last.op = "find"
     /\ \E m \in 1..Len(last.ret.matches) :
            \E g \in 2..Len(last.ret.matches[m]) : last.ret.matches[m][g][1] < 0) =>
        /\ last.exc = "none"
        /\ \A m \in 1..Len(last.ret.matches) :
             \A g \in 1..Len(last.ret.matches[m]) :
                 LET span == last.ret.matches[m][g]
                     range == last.ret.groups[m][g]
                 IN  IF span[1] < 0 THEN range = span
                     ELSE range_text(paragraph.r_lst, range[1], range[2])
                            = PySlice(para_text(last.pre), span[1], span[2])

\* C9: a match with a group that takes no part always makes find raise
\* IndexError.
C9_UnmatchedGroupRaises ==
    (/\ last.op = "find"
     /\ \E m \in 1..Len(last.ret.matches) :
            \E g \in 2..Len(last.ret.matches[m]) : last.ret.matches[m][g][1] < 0) =>
        last.exc = "IndexError"

\* C6: a call with the template \g<name> that has a match never completes:
\* the name looked up in the group-name table is "g<name>".
C6_NamedReferenceRaises ==
    (/\ OnePair
     /\ last.args[2][1] = Tpl_gx
     /\ finditer(last.args[1][1], para_text(last.pre)) # <<>>) =>
        /\ last.exc \in {"KeyError", "IndexError"}
        /\ last.exc = "IndexError" =>
               last.ret[1].spans[Len(last.ret[1].spans)][2] = Len(last.ret[1].iso)

-----------------------------------------------------------------------------
\* C8: the pairs of one call of find_and_replace are applied one after
\* another, in the order given, each to the paragraph text the pairs before it
\* left: the text after the call is the text with the first pair's matches
\* replaced and then the second pair's, and every pair starts from the runs
\* the pair before it left.
C8_PairsInSequence ==
    (last.op = "find_and_replace" /\ Len(last.args[1]) = 2) =>
        /\ last.exc = "none"
        /\ Len(last.ret) = 2
        /\ last.ret[1].pre = last.pre
        /\ last.ret[2].pre = last.ret[1].post
        /\ last.ret[2].post = paragraph.r_lst
        /\ para_text(paragraph.r_lst)
             = re_sub(last.args[1][2], last.args[2][2],
                      re_sub(last.args[1][1], last.args[2][1], para_text(last.pre)))

\* The pairs a -> b, b -> c were applied to a paragraph with an a and no b,
\* and the second pair replaced the b of the first.
C8_Witness ==
    /\ last.op = "find_and_replace"
    /\ last.args = <<<<Pat_a, Pat_b>>, <<Tpl_b, Tpl_c>>>>
    /\ \E j \in 1..Len(para_text(last.pre)) : para_text(last.pre)[j] = "a"
    /\ \A j \in 1..Len(para_text(last.pre)) : para_text(last.pre)[j] # "b"
    /\ last.ret[2].found
    /\ \A j \in 1..Len(para_text(paragraph.r_lst)) : para_text(paragraph.r_lst)[j] = "c"

-----------------------------------------------------------------------------
\* C11: split_run_at_string_index(run, k) with k <= 0 or k >= len(run.text)
\* raises IndexError and leaves the text of the run and the runs of the
\* paragraph as they were.
C11_SplitOutOfRange ==
    (/\ last.op = "split_run"
     /\ \/ last.args[2] <= 0
        \/ last.args[2] >= Len(PyAt(last.pre, last.args[1]).text)) =>
        /\ last.exc = "IndexError"
        /\ paragraph.r_lst = last.pre

\* A run with text was to be split at the end of its text, and another at 0.
C11_Witness ==
    /\ last.op = "split_run"
    /\ last.exc = "IndexError"
    /\ Len(PyAt(last.pre, last.args[1]).text) > 0
    /\ last.args[2] \in {0, Len(PyAt(last.pre, last.args[1]).text)}
    /\ paragraph.r_lst = last.pre

-----------------------------------------------------------------------------
\* C12: when the pattern has no match in the paragraph text, find returns
\* three empty lists and the runs of the paragraph are as before, in number,
\* text and formatting; find_and_replace with such a pattern leaves the runs
\* as they were too.
C12_NoMatchNoChange ==
    /\ (last.op = "find" /\ finditer(last.args[1], para_text(last.pre)) = <<>>) =>
           /\ last.exc = "none"
           /\ last.ret = [spans |-> <<>>, groups |-> <<>>, matches |-> <<>>]
           /\ paragraph.r_lst = last.pre
    /\ last.op = "find_and_replace" =>
           /\ \A t \in 1..Len(last.ret) :
                  finditer(last.ret[t].find, para_text(last.ret[t].pre)) = <<>> =>
                      /\ last.ret[t].exc = "none"
                      /\ last.ret[t].post = last.ret[t].pre
           /\ (/\ Len(last.args[1]) = 1
               /\ finditer(last.args[1][1], para_text(last.pre)) = <<>>) =>
                  /\ last.exc = "none"
                  /\ paragraph.r_lst = last.pre

\* find was called with a pattern that has no match in a paragraph whose
\* first run has two characters or more.
C12_WitnessFind ==
    /\ last.op = "find"
    /\ last.pre # <<>>
    /\ Len(last.pre[1].text) >= 2
    /\ last.ret.matches = <<>>
    /\ paragraph.r_lst = last.pre

-----------------------------------------------------------------------------
\* The names of the groups a template refers to with \g<name>.
NamedRefs(repl) ==
    LET refs == find_reference_in_repl(repl)
    IN  {PySlice(refs[k].nameORnumber, 2, Len(refs[k].nameORnumber) - 1) :
            k \in {j \in 1..Len(refs) : ~isnumeric(refs[j].nameORnumber)}}

\* The template of the call refers to a named group the pattern has not.
AbsentName ==
    /\ OnePair
    /\ \E n \in NamedRefs(last.args[2][1]) : n \notin DOMAIN groupindex(last.args[1][1])

\* The runs of the matches left of the match the call failed at are as find
\* left them.
LeftMatchesUntouched ==
    LET rec == last.ret[1]
    IN  rec.steps # <<>> =>
            LET failed == rec.steps[Len(rec.steps)]
            IN  \A m \in 1..(failed.m - 1) :
                    \A j \in rec.spans[m][1]..(rec.spans[m][2] - 1) :
                        PyAt(rec.post, j) = PyAt(rec.iso, j)

\* C13: when the template refers to a named group that the pattern has not,
\* find_and_replace raises an error, and the runs of every match not yet
\* processed (the matches left of the one the failure came at) keep their text
\* and formatting.
C13_AbsentNameFails ==
    AbsentName => (last.exc # "none" /\ LeftMatchesUntouched)

\* C13, for the calls with a match: the call raises, and the matches left of
\* the failing one are untouched.
C13_FailsWithAMatch ==
    (AbsentName /\ finditer(last.args[1][1], para_text(last.pre)) # <<>>) =>
        (last.exc # "none" /\ LeftMatchesUntouched)

\* C13: without a match the call returns, the template is never looked at.
C13_ReturnsWithoutAMatch ==
    (AbsentName /\ finditer(last.args[1][1], para_text(last.pre)) = <<>>) =>
        (last.exc = "none" /\ paragraph.r_lst = last.pre)

-----------------------------------------------------------------------------
\* The pattern is plain text (no group, nothing optional) and the template is
\* the same text.
SelfReplace ==
    /\ OnePair
    /\ \A i \in 1..Len(last.args[1][1]) : last.args[1][1][i].k = "chr"
    /\ last.args[2][1] = [i \in 1..Len(last.args[1][1]) |-> last.args[1][1][i].c]

\* C14: find_and_replace with a pattern that is plain text and a template that
\* is the same text leaves the paragraph text as it was, whatever the runs the
\* text is cut into and however many matches there are.
C14_SelfReplace ==
    SelfReplace => para_text(paragraph.r_lst) = para_text(last.pre)

\* "ab" was replaced by "ab" where the match began in one run and ended in
\* another, and "a" by "a" at two matches.
C14_Witness ==
    /\ SelfReplace
    /\ last.exc = "none"
    /\ paragraph.r_lst # last.pre
    /\ \/ /\ last.args[1][1] = Pat_ab
          /\ last.ret[1].spans # <<>>
          /\ last.ret[1].spans[1][2] - last.ret[1].spans[1][1] >= 2
       \/ /\ last.args[1][1] = Pat_a
          /\ Len(last.ret[1].spans) = 2

-----------------------------------------------------------------------------
\* C15: for a pattern without capture groups, every new run find_and_replace
\* makes for a match has the formatting of the first run of the run range of
\* that match.
C15_FirstRunFormatting ==
    last.op = "find_and_replace" =>
        \A t \in 1..Len(last.ret) :
            LET rec == last.ret[t]
            IN  NGroups(rec.find) = 0 =>
                    \A s \in 1..Len(rec.steps) :
                        LET span == rec.spans[rec.steps[s].m]
                        IN  span[1] < span[2] =>
                                \A a \in 1..Len(rec.steps[s].added) :
                                    rec.steps[s].added[a].rPr
                                      = PyAt(rec.iso, span[1]).rPr

\* A match of a pattern without groups began in a bold run that came after a
\* run without formatting, and was replaced.
C15_Witness ==
    /\ OnePair
    /\ last.exc = "none"
    /\ NGroups(last.args[1][1]) = 0
    /\ \E s \in 1..Len(last.ret[1].steps) :
           LET lo == last.ret[1].spans[last.ret[1].steps[s].m][1]
           IN  /\ lo > 0
               /\ lo < last.ret[1].spans[last.ret[1].steps[s].m][2]
               /\ PyAt(last.ret[1].iso, lo).rPr = "bold"
               /\ PyAt(last.ret[1].iso, lo - 1).rPr = "none"
               /\ last.ret[1].steps[s].added[1].rPr = "bold"

-----------------------------------------------------------------------------
\* C16: find_and_replace processes the matches of a pair from the last to the
\* first, and at the moment a match is processed the run range find recorded
\* for it still holds the runs it held when find returned, whose texts
\* concatenate to the matched text: replacing a match never moves the runs of
\* a match to its left.
C16_RangesStayValid ==
    last.op = "find_and_replace" =>
        \A t \in 1..Len(last.ret) :
            LET rec == last.ret[t]
            IN  \A s \in 1..Len(rec.steps) :
                    LET m == rec.steps[s].m
                        lo == rec.spans[m][1]
                        hi == rec.spans[m][2]
                    IN  /\ m = Len(rec.spans) - s + 1
                        /\ PySlice(rec.steps[s].at, lo, hi) = PySlice(rec.iso, lo, hi)
                        /\ range_text(rec.steps[s].at, lo, hi)
                             = PySlice(para_text(rec.pre), rec.matches[m][1][1],
                                       rec.matches[m][1][2])

\* The first of two matches was processed after the second had been replaced
\* by a different number of runs.
C16_Witness ==
    /\ OnePair
    /\ Len(last.ret[1].steps) = 2
    /\ last.ret[1].steps[2].m = 1
    /\ last.ret[1].steps[2].exc = "none"
    /\ Len(last.ret[1].steps[2].at) # Len(last.ret[1].iso)

-----------------------------------------------------------------------------
\* The text of group g (0 for the whole match) of match m of the last find.
FoundText(m, g) ==
    PySlice(para_text(last.pre), last.ret.matches[m][g + 1][1],
            last.ret.matches[m][g + 1][2])

\* C17: when find returns, for every match, the earlier ones after the later
\* ones were isolated included, the adjusted run range (lo, hi) of the match
\* is such that the texts of runs[lo:hi] concatenate to the text of the match,
\* and lo <= g_lo <= g_hi <= hi for the run range (g_lo, g_hi) of every group
\* that took part.
C17_OverallRange ==
    (last.op = "find" /\ last.exc = "none") =>
        \A m \in 1..Len(last.ret.spans) :
            LET lo == last.ret.spans[m][1]
                hi == last.ret.spans[m][2]
            IN  /\ last.ret.groups[m][1] = last.ret.spans[m]
                /\ range_text(paragraph.r_lst, lo, hi) = FoundText(m, 0)
                /\ \A g \in 2..Len(last.ret.groups[m]) :
                       last.ret.matches[m][g][1] >= 0 =>
                           /\ lo <= last.ret.groups[m][g][1]
                           /\ last.ret.groups[m][g][1] <= last.ret.groups[m][g][2]
                           /\ last.ret.groups[m][g][2] <= hi

-----------------------------------------------------------------------------
\* C18: when find returns, for every match and every group that took part, a
\* group that encloses a later group and groups not in text order included,
\* the run range (lo, hi) returned for the group is such that the texts of
\* runs[lo:hi] concatenate to the text the group matched.
C18_GroupRanges ==
    (last.op = "find" /\ last.exc = "none") =>
        \A m \in 1..Len(last.ret.groups) :
            \A g \in 2..Len(last.ret.groups[m]) :
                last.ret.matches[m][g][1] >= 0 =>
                    range_text(paragraph.r_lst, last.ret.groups[m][g][1],
                               last.ret.groups[m][g][2]) = FoundText(m, g - 1)

\* C17, for the matches whose groups lie inside the span of the match: the
\* adjusted run range is right.
C17_HoldsInsideTheMatch ==
    (last.op = "find" /\ last.exc = "none") =>
        \A m \in 1..Len(last.ret.spans) :
            LET lo == last.ret.spans[m][1]
                hi == last.ret.spans[m][2]
                regs == last.ret.matches[m]
            IN  (\A g \in 2..Len(regs) : regs[1][1] <= regs[g][1] /\ regs[g][2] <= regs[1][2]) =>
                    /\ range_text(paragraph.r_lst, lo, hi) = FoundText(m, 0)
                    /\ \A g \in 2..Len(regs) :
                           /\ lo <= last.ret.groups[m][g][1]
                           /\ last.ret.groups[m][g][1] <= last.ret.groups[m][g][2]
                           /\ last.ret.groups[m][g][2] <= hi

\* C18, for the matches whose groups follow one another in the text in the
\* order of their numbers: the run ranges of the groups are right.
C18_HoldsForGroupsInSequence ==
    (last.op = "find" /\ last.exc = "none") =>
        \A m \in 1..Len(last.ret.groups) :
            LET regs == last.ret.matches[m]
            IN  (\A g, h \in 2..Len(regs) : g < h => regs[g][2] <= regs[h][1]) =>
                    \A g \in 2..Len(regs) :
                        range_text(paragraph.r_lst, last.ret.groups[m][g][1],
                                   last.ret.groups[m][g][2]) = FoundText(m, g - 1)

-----------------------------------------------------------------------------
\* The stretches of literal characters of a template that are not empty: the
\* numbers k of the back-references (0 for the start of the template) that
\* such a stretch follows.
LiteralStretches(repl) ==
    LET refs == find_reference_in_repl(repl)
        n == Len(refs)
    IN  {k \in 0..n :
            (IF k = 0 THEN 0 ELSE refs[k].span[2])
              < (IF k = n THEN Len(repl) ELSE refs[k + 1].span[1])}

\* The number of sections of a template: one per back-reference and one per
\* stretch of literal characters that is not empty.
NSections(repl) ==
    Len(find_reference_in_repl(repl)) + Cardinality(LiteralStretches(repl))

\* The call replaced a match, all the sections of the template done.
Replaced(t, s) == last.ret[t].steps[s].exc = "none"

\* C19: every match is replaced by exactly one new run per section of the
\* template, the sections being the back-references and the stretches of
\* literal characters that are not empty; an empty stretch (between two
\* back-references, before the first, after the last, or an empty template)
\* makes no section and no run.
C19_OneRunPerSection ==
    last.op = "find_and_replace" =>
        \A t \in 1..Len(last.ret) :
            \A s \in 1..Len(last.ret[t].steps) :
                Replaced(t, s) =>
                    LET added == last.ret[t].steps[s].added
                    IN  /\ Len(added) = NSections(last.ret[t].replace)
                        /\ \A a \in 1..Len(added) :
                               added[a].name = None => added[a].text # <<>>

\* C19, but for the end of the template: the match is replaced by one run per
\* section and one more, without text, when the template is empty or ends
\* with a back-reference.
C19_OneMoreAtTheEnd ==
    last.op = "find_and_replace" =>
        \A t \in 1..Len(last.ret) :
            \A s \in 1..Len(last.ret[t].steps) :
                Replaced(t, s) =>
                    LET added == last.ret[t].steps[s].added
                        repl == last.ret[t].replace
                        open == Len(find_reference_in_repl(repl)) \notin LiteralStretches(repl)
                    IN  /\ Len(added) = NSections(repl) + (IF open THEN 1 ELSE 0)
                        /\ \A a \in 1..Len(added) :
                               (added[a].name = None /\ added[a].text = <<>>) <=>
                                   (open /\ added[a].id = added[Len(added)].id)

-----------------------------------------------------------------------------
RECURSIVE char_formats(_)
\* The characters of a paragraph, each with the formatting of its run.
char_formats(r_lst) ==
    IF r_lst = <<>> THEN <<>>
    ELSE [i \in 1..Len(r_lst[1].text) |-> <<r_lst[1].text[i], r_lst[1].rPr>>]
         \o char_formats(Tail(r_lst))

\* Offset x lies strictly inside run k of the run list.
StrictlyInside(r_lst, k, x) == SumLen(r_lst, k - 1) < x /\ x < SumLen(r_lst, k)

\* C20: isolate_para_runs_by_span splits at most two runs: there are as many
\* runs more as there are distinct values among s and e that are not the
\* offset of a run boundary; every run that has neither s nor e strictly
\* inside keeps its text and its formatting; and every piece of a split run
\* has the formatting of the run it was cut from.
C20_IsolateSplits ==
    last.op = "isolate_span" =>
        LET s == last.args[1]
            e == last.args[2]
            old == {last.pre[k].id : k \in 1..Len(last.pre)}
        IN  /\ Len(paragraph.r_lst)
                 = Len(last.pre) + Cardinality({s, e} \ Boundaries(last.pre))
            /\ Len(paragraph.r_lst) <= Len(last.pre) + 2
            /\ \A k \in 1..Len(last.pre) :
                   (~StrictlyInside(last.pre, k, s) /\ ~StrictlyInside(last.pre, k, e)) =>
                       \E j \in 1..Len(paragraph.r_lst) : paragraph.r_lst[j] = last.pre[k]
            /\ char_formats(paragraph.r_lst) = char_formats(last.pre)
            /\ \A j \in 1..Len(paragraph.r_lst) :
                   IF paragraph.r_lst[j].id \in old
                   THEN \E k \in 1..Len(last.pre) :
                            /\ last.pre[k].id = paragraph.r_lst[j].id
                            /\ last.pre[k].rPr = paragraph.r_lst[j].rPr
                   ELSE /\ j > 1
                        /\ paragraph.r_lst[j].rPr = paragraph.r_lst[j - 1].rPr
                        /\ paragraph.r_lst[j].text # <<>>

\* A span that starts and ends strictly inside one bold run, which stands
\* between two runs without formatting, was isolated.
C20_Witness ==
    /\ last.op = "isolate_span"
    /\ last.exc = "none"
    /\ Len(last.pre) = 3
    /\ last.pre[2].rPr = "bold"
    /\ last.pre[1].rPr = "none" /\ last.pre[3].rPr = "none"
    /\ last.args[1] < last.args[2]
    /\ StrictlyInside(last.pre, 2, last.args[1])
    /\ StrictlyInside(last.pre, 2, last.args[2])
    /\ Len(paragraph.r_lst) = 5

-----------------------------------------------------------------------------
RECURSIVE IsSubsequence(_, _)
\* The elements of a are among those of b, in the same order.
IsSubsequence(a, b) ==
    IF a = <<>> THEN TRUE
    ELSE IF b = <<>> THEN FALSE
    ELSE IF Head(a) = Head(b) THEN IsSubsequence(Tail(a), Tail(b))
    ELSE IsSubsequence(a, Tail(b))

\* C21: every call of find, whether it returns or raises part-way, leaves the
\* paragraph text (the texts of the runs, concatenated in order) as it was
\* before the call, and every character keeps the formatting of the run it
\* was in: find only adds run boundaries, it does not reorder, drop or
\* duplicate text.
C21_FindKeepsText ==
    last.op = "find" =>
        /\ para_text(paragraph.r_lst) = para_text(last.pre)
        /\ char_formats(paragraph.r_lst) = char_formats(last.pre)
        /\ Len(paragraph.r_lst) >= Len(last.pre)
        /\ IsSubsequence([k \in 1..Len(last.pre) |-> last.pre[k].id],
                         [j \in 1..Len(paragraph.r_lst) |-> paragraph.r_lst[j].id])

\* find raised after it had split a run of a paragraph with a bold run and a
\* run without formatting.
C21_Witness ==
    /\ last.op = "find"
    /\ last.exc = "IndexError"
    /\ Len(paragraph.r_lst) > Len(last.pre)
    /\ \E k \in 1..Len(last.pre) : last.pre[k].rPr = "bold" /\ last.pre[k].text # <<>>
    /\ \E k \in 1..Len(last.pre) : last.pre[k].rPr = "none" /\ last.pre[k].text # <<>>

====
